---------------------------- MODULE Spec2Model ----------------------------
(***************************************************************************)
(* Koa chat assistant: the reply pipeline of app/api/chat/route.ts (POST)  *)
(* and the chat client of app/page.tsx (sendMessage / handleSend).         *)
(*                                                                         *)
(* Text is a sequence of segments.  The segment " " is white space, "\n"   *)
(* a line break; every other segment stands for a run of visible           *)
(* characters.  The empty text is << >>, the only falsy string.            *)
(***************************************************************************)
EXTENDS Integers, Sequences, FiniteSets, TLC

(***************************************************************************)
(* Bounds of the model.                                                    *)
(***************************************************************************)
MaxHist == 2          \* longest history a direct caller posts
MaxRecords == 2       \* most records the store stub returns
MaxSubmits == 2       \* accepted submits in one page session
MaxTick == 1          \* clock ticks in one page session
MaxRequests == 3      \* requests the stubbed pipeline handles in one run
ClockBase == 10       \* Date.now() when the page loads

(***************************************************************************)
(* Text helpers.                                                           *)
(***************************************************************************)
WS == {" ", "\n"}

RECURSIVE TrimStart(_)
TrimStart(s) ==
    IF s # << >> /\ Head(s) \in WS THEN TrimStart(Tail(s)) ELSE s

RECURSIVE TrimEnd(_)
TrimEnd(s) ==
    IF s # << >> /\ s[Len(s)] \in WS
    THEN TrimEnd(SubSeq(s, 1, Len(s) - 1))
    ELSE s

\* String.prototype.trim
Trim(s) == TrimEnd(TrimStart(s))

\* Array.prototype.join on an array of texts
RECURSIVE Join(_, _)
Join(parts, sep) ==
    IF parts = << >> THEN << >>
    ELSE IF Len(parts) = 1 THEN parts[1]
    ELSE parts[1] \o sep \o Join(Tail(parts), sep)

\* [...arr].reverse()
Reverse(seq) == [i \in 1..Len(seq) |-> seq[Len(seq) + 1 - i]]

(***************************************************************************)
(* JSON values, and JSON text as a sequence of tokens.                     *)
(*   value:  null | string | number | array | object (ordered members)     *)
(*   token:  [p |-> punctuation] | [s |-> text] | [n |-> digits]           *)
(*           | [lit |-> "null"] | [w |-> bare word]                        *)
(***************************************************************************)
JNull == [t |-> "null"]
JStr(x) == [t |-> "str", s |-> x]
JNum(d) == [t |-> "num", n |-> d]
JArr(a) == [t |-> "arr", a |-> a]
JObj(kv) == [t |-> "obj", kv |-> kv]
Member(k, v) == [k |-> k, v |-> v]

P(c) == [p |-> c]
IsP(tok, c) == "p" \in DOMAIN tok /\ tok.p = c

\* obj[k] of a parsed value: the member's value, or undefined
HasKey(val, k) ==
    val.t = "obj" /\ \E i \in 1..Len(val.kv) : val.kv[i].k = k
Get(val, k) ==
    val.kv[CHOOSE i \in 1..Len(val.kv) : val.kv[i].k = k].v

\* a repeated key keeps its first position and takes the last value
Put(kv, k, v) ==
    IF \E i \in 1..Len(kv) : kv[i].k = k
    THEN [i \in 1..Len(kv) |-> IF kv[i].k = k THEN Member(k, v) ELSE kv[i]]
    ELSE Append(kv, Member(k, v))

ParseFail == [ok |-> FALSE]
Parsed(v, next) == [ok |-> TRUE, val |-> v, next |-> next]

RECURSIVE ParseValue(_, _)
RECURSIVE ParseElems(_, _, _)
RECURSIVE ParseMembers(_, _, _)

\* elements of an array, i at the first token of an element
ParseElems(toks, i, acc) ==
    LET r == ParseValue(toks, i) IN
    IF ~r.ok \/ r.next > Len(toks) THEN ParseFail
    ELSE IF IsP(toks[r.next], ",") THEN ParseElems(toks, r.next + 1, Append(acc, r.val))
    ELSE IF IsP(toks[r.next], "]") THEN Parsed(JArr(Append(acc, r.val)), r.next + 1)
    ELSE ParseFail

\* members of an object, i at the key token of a member
ParseMembers(toks, i, acc) ==
    IF i + 1 > Len(toks) \/ "s" \notin DOMAIN toks[i] \/ ~IsP(toks[i + 1], ":")
    THEN ParseFail
    ELSE LET r == ParseValue(toks, i + 2) IN
         IF ~r.ok \/ r.next > Len(toks) THEN ParseFail
         ELSE IF IsP(toks[r.next], ",")
              THEN ParseMembers(toks, r.next + 1, Put(acc, toks[i].s, r.val))
         ELSE IF IsP(toks[r.next], "}")
              THEN Parsed(JObj(Put(acc, toks[i].s, r.val)), r.next + 1)
         ELSE ParseFail

ParseValue(toks, i) ==
    IF i > Len(toks) THEN ParseFail
    ELSE LET tok == toks[i] IN
         IF "lit" \in DOMAIN tok THEN Parsed(JNull, i + 1)
         ELSE IF "s" \in DOMAIN tok THEN Parsed(JStr(tok.s), i + 1)
         ELSE IF "n" \in DOMAIN tok THEN Parsed(JNum(tok.n), i + 1)
         ELSE IF IsP(tok, "[")
              THEN IF i + 1 <= Len(toks) /\ IsP(toks[i + 1], "]")
                   THEN Parsed(JArr(<< >>), i + 2)
                   ELSE ParseElems(toks, i + 1, << >>)
         ELSE IF IsP(tok, "{")
              THEN IF i + 1 <= Len(toks) /\ IsP(toks[i + 1], "}")
                   THEN Parsed(JObj(<< >>), i + 2)
                   ELSE ParseMembers(toks, i + 1, << >>)
         ELSE ParseFail

\* JSON.parse: the value, or a SyntaxError (ok = FALSE)
JSONParse(toks) ==
    LET r == ParseValue(toks, 1) IN
    IF r.ok /\ r.next = Len(toks) + 1 THEN [ok |-> TRUE, val |-> r.val] ELSE ParseFail

RECURSIVE JSONStringify(_)
RECURSIVE StringifyElems(_)
RECURSIVE StringifyMembers(_)

StringifyElems(a) ==
    IF a = << >> THEN << >>
    ELSE IF Len(a) = 1 THEN JSONStringify(a[1])
    ELSE JSONStringify(a[1]) \o <<P(",")>> \o StringifyElems(Tail(a))

StringifyMembers(kv) ==
    IF kv = << >> THEN << >>
    ELSE LET one == <<[s |-> kv[1].k], P(":")>> \o JSONStringify(kv[1].v) IN
         IF Len(kv) = 1 THEN one
         ELSE one \o <<P(",")>> \o StringifyMembers(Tail(kv))

\* JSON.stringify
JSONStringify(val) ==
    IF val.t = "null" THEN <<[lit |-> "null"]>>
    ELSE IF val.t = "str" THEN <<[s |-> val.s]>>
    ELSE IF val.t = "num" THEN <<[n |-> val.n]>>
    ELSE IF val.t = "arr" THEN <<P("[")>> \o StringifyElems(val.a) \o <<P("]")>>
    ELSE <<P("{")>> \o StringifyMembers(val.kv) \o <<P("}")>>

(***************************************************************************)
(* State.                                                                  *)
(*   Reply pipeline (one POST invocation):                                 *)
(*     pc           where the handler is: "idle", "searching" (awaiting    *)
(*                  searchRecords), "generating" (awaiting                 *)
(*                  chat.completions.create), "responded", "crashed"       *)
(*     reqBody      the request body the handler was called with           *)
(*     srvMessages  the handler's local `messages`                         *)
(*     search       the handler's local `search`: not awaited yet, the     *)
(*                  store's answer, or thrown                              *)
(*     completion   the handler's local `completion`, likewise             *)
(*     searchCalls  the searchRecords calls made for this request          *)
(*     genCalls     the chat.completions.create calls made for it          *)
(*     response     what the handler returned                              *)
(*   Chat client (HomePage):                                               *)
(*     messages, input, isLoading   the three useState cells               *)
(*     rendered     the values the handlers of the last render closed over *)
(*     calls        one record per accepted submit, in order:              *)
(*                    pc   where that invocation of sendMessage is:        *)
(*                         "fetching" (awaiting fetch), "reading"          *)
(*                         (awaiting res.json()), "done"                   *)
(*                    req  the payload it sent                             *)
(*                    net  its HTTP exchange: "sent", "atServer",          *)
(*                         "answered" (fetch resolved), "failed" (fetch    *)
(*                         rejected), "none" once the fetch was consumed   *)
(*                    res  the Response fetch resolved with                *)
(*     serving      the call whose request the pipeline is handling, or 0  *)
(*     now          Date.now(), in ticks since the page loaded             *)
(*     page         which of the two HomePage components of app/page.tsx   *)
(*                  is mounted: 1 (sendMessage, quick moods) or 2          *)
(*     lastSubmit   how the latest submit ended: "none" yet, "accepted",   *)
(*                  or returned at once for an "empty" text or while       *)
(*                  "loading" (an observer's record, not program state)    *)
(*   Stubbed services (used when the pipeline is run against deterministic *)
(*   stand-ins for the store and the generation service):                  *)
(*     stub         which stand-ins are plugged in, fixed for a run        *)
(*     log          the requests answered so far, in order: the body of    *)
(*                  each with the response it got (an observer's record)   *)
(***************************************************************************)
VARIABLES pc, reqBody, srvMessages, search, completion, searchCalls, genCalls, response,
          messages, input, isLoading, rendered, calls, serving, now, page,
          lastSubmit, stub, log

srvVars == <<pc, reqBody, srvMessages, search, completion, searchCalls, genCalls, response>>
clientVars == <<messages, input, isLoading, rendered, calls, serving, now, page,
               lastSubmit>>
stubVars == <<stub, log>>
vars == <<pc, reqBody, srvMessages, search, completion, searchCalls, genCalls, response,
          messages, input, isLoading, rendered, calls, serving, now, page,
          lastSubmit, stub, log>>

(***************************************************************************)
(* Reply pipeline: app/api/chat/route.ts                                   *)
(***************************************************************************)
TopK == 5

KOA_SYSTEM_PROMPT == <<"You are Koa, a gentle, friendly micro-mindfulness buddy.">>
SnippetsHeader == <<"Here are knowledge base snippets you can draw practices from:", "\n", "\n">>
SchemaPrompt == <<"Respond ONLY as a JSON object with this exact shape: { reply, miniPractice }">>
NoSnippetNotice ==
    <<"No specific snippet found; fall back to general micro-mindfulness advice.">>
RecordSeparator == <<"\n", "\n", "---", "\n", "\n">>
NoUserMessageError == <<"No user message provided.">>
ParseFallbackReply ==
    <<"Hmm, something went wrong while talking to my brain in the cloud. Could you try again in a moment?">>
CatchFallbackReply ==
    <<"Hmm, something went wrong while talking to my brain in the cloud. Can you try again in a moment?">>

K_reply == <<"reply">>
K_miniPractice == <<"miniPractice">>
K_error == <<"error">>

NoResponse == [status |-> 0, body |-> << >>]
NotCalled == [called |-> "no"]
Threw == [called |-> "threw"]
Returned(v) == [called |-> "ok", value |-> v]

\* NextResponse.json(value, { status })
NextResponseJson(val, status) == [status |-> status, body |-> JSONStringify(val)]

\* faulty variant: the messages are pushed onto an array that outlives the request
BodyMessages_Accumulated(b) ==
    srvMessages \o (IF b.hasMessages THEN b.messages ELSE << >>)

\* (body.messages || [])
BodyMessages(b) == IF b.hasMessages THEN b.messages ELSE << >>

\* faulty variant: find() without reverse(), the first user message
LatestUserMessage_First(msgs) ==
    LET hits == {i \in 1..Len(msgs) : msgs[i].role = "user"}
    IN  IF hits = {} THEN << >>
        ELSE msgs[CHOOSE i \in hits : \A j \in hits : i <= j].content

\* [...messages].reverse().find(m => m.role === "user")?.content || ""
LatestUserMessage(msgs) ==
    LET rev == Reverse(msgs)
        hits == {i \in 1..Len(rev) : rev[i].role = "user"}
    IN  IF hits = {} THEN << >>
        ELSE rev[CHOOSE i \in hits : \A j \in hits : i <= j].content

\* faulty variant: the check for a user message left out
NoLatestUserMessage_Skipped(msgs) == FALSE

\* if (!latestUserMessage)
NoLatestUserMessage(msgs) == LatestUserMessage(msgs) = << >>

ErrorBody == JObj(<<Member(K_error, JStr(NoUserMessageError))>>)

ParseFallback ==
    JObj(<<Member(K_reply, JStr(ParseFallbackReply)), Member(K_miniPractice, JNull)>>)
CatchFallback ==
    JObj(<<Member(K_reply, JStr(CatchFallbackReply)), Member(K_miniPractice, JNull)>>)

\* the searchRecords request
SearchRequest(text) == [topK |-> TopK, text |-> text]

\* (search.records || [])
SearchRecordsOf(s) == IF s.hasRecords THEN s.records ELSE << >>

IsStringField(f) == "s" \in DOMAIN f
FieldText(f) == f.s
NonEmpty(s) == s # << >>

\* Object.values(rec.values || {}).filter(v => typeof v === "string").join("\n")
RecordText(rec) ==
    LET strs == SelectSeq(rec.values, IsStringField)
    IN  Join([i \in 1..Len(strs) |-> FieldText(strs[i])], <<"\n">>)

\* records.map(...).filter(Boolean).join("\n\n---\n\n")
ContextText(records) ==
    Join(SelectSeq([i \in 1..Len(records) |-> RecordText(records[i])], NonEmpty),
         RecordSeparator)

\* faulty variant: no fallback notice
ContextForModel_NoNotice(records) == ContextText(records)

\* contextText || "No specific snippet found; ..."
ContextForModel(records) ==
    IF ContextText(records) = << >> THEN NoSnippetNotice ELSE ContextText(records)

\* faulty variant: the schema block is put before the conversation
GenerationMessages_SchemaFirst(msgs, context) ==
    <<[role |-> "system", content |-> KOA_SYSTEM_PROMPT],
      [role |-> "system", content |-> SnippetsHeader \o context],
      [role |-> "system", content |-> SchemaPrompt]>>
    \o [i \in 1..Len(msgs) |-> [role |-> msgs[i].role, content |-> msgs[i].content]]

\* the `messages` array of the chat.completions.create request
GenerationMessages(msgs, context) ==
    <<[role |-> "system", content |-> KOA_SYSTEM_PROMPT],
      [role |-> "system", content |-> SnippetsHeader \o context]>>
    \o [i \in 1..Len(msgs) |-> [role |-> msgs[i].role, content |-> msgs[i].content]]
    \o <<[role |-> "system", content |-> SchemaPrompt]>>

GenerationRequest(msgs, context) ==
    [model |-> "gpt-4.1-mini", response_format |-> "json_object",
     messages |-> GenerationMessages(msgs, context)]

\* completion.choices[0].message?.content || "{}"
CompletionContent(comp) ==
    LET c == comp.choices[1].content
    IN  IF c.isNull \/ c.text = << >> THEN <<P("{"), P("}")>> ELSE c.text

\* try { parsed = JSON.parse(content) } catch (e) { parsed = { reply, miniPractice: null } }
ParsedOrFallback(content) ==
    IF JSONParse(content).ok THEN JSONParse(content).val ELSE ParseFallback

\* faulty variant: no outer catch, the exception leaves the handler
Caught_Rethrown ==
    /\ response' = NoResponse
    /\ pc' = "crashed"

\* the outer catch: log, answer the apology with status 500
Caught ==
    /\ response' = NextResponseJson(CatchFallback, 500)
    /\ pc' = "responded"

\* POST up to its first await: read the body, pick the query, start the search
POST(b) ==
    /\ pc \in {"idle", "responded"}
    /\ reqBody' = b
    /\ IF ~b.valid
       THEN /\ Caught
            /\ srvMessages' = << >>
            /\ searchCalls' = << >>
            /\ genCalls' = << >>
            /\ search' = NotCalled
            /\ completion' = NotCalled
       ELSE /\ srvMessages' = BodyMessages(b)
            /\ genCalls' = << >>
            /\ search' = NotCalled
            /\ completion' = NotCalled
            /\ IF NoLatestUserMessage(BodyMessages(b))
               THEN /\ response' = NextResponseJson(ErrorBody, 400)
                    /\ pc' = "responded"
                    /\ searchCalls' = << >>
               ELSE /\ searchCalls' = <<SearchRequest(LatestUserMessage(BodyMessages(b)))>>
                    /\ response' = NoResponse
                    /\ pc' = "searching"

\* searchRecords resolves: build the context, start the generation
SearchResolves(search_) ==
    /\ pc = "searching"
    /\ genCalls' = Append(genCalls,
           GenerationRequest(srvMessages, ContextForModel(SearchRecordsOf(search_))))
    /\ pc' = "generating"
    /\ search' = Returned(search_)
    /\ UNCHANGED <<reqBody, srvMessages, completion, searchCalls, response>>

\* faulty variant: a failed search is swallowed and the generation is asked
\* with the fallback notice as its context
SearchRejects_FallsThrough ==
    /\ pc = "searching"
    /\ search' = Threw
    /\ genCalls' = Append(genCalls, GenerationRequest(srvMessages, NoSnippetNotice))
    /\ pc' = "generating"
    /\ UNCHANGED <<reqBody, srvMessages, completion, searchCalls, response>>

\* searchRecords rejects: the outer catch
SearchRejects ==
    /\ pc = "searching"
    /\ Caught
    /\ search' = Threw
    /\ UNCHANGED <<reqBody, srvMessages, completion, searchCalls, genCalls>>

\* chat.completions.create resolves: parse the content, answer
CreateResolves(c) ==
    /\ pc = "generating"
    /\ completion' = Returned(c)
    /\ IF c.choices = << >>
       THEN Caught        \* choices[0] is undefined: TypeError
       ELSE /\ response' = NextResponseJson(ParsedOrFallback(CompletionContent(c)), 200)
            /\ pc' = "responded"
    /\ UNCHANGED <<reqBody, srvMessages, search, searchCalls, genCalls>>

\* chat.completions.create rejects: the outer catch
CreateRejects ==
    /\ pc = "generating"
    /\ Caught
    /\ completion' = Threw
    /\ UNCHANGED <<reqBody, srvMessages, search, searchCalls, genCalls>>

(***************************************************************************)
(* Chat client: app/page.tsx                                               *)
(***************************************************************************)
GreetingText == <<"Hey, I'm Koa. Tell me how you're feeling in a line or two.">>
PlaceholderText == <<"Here's a small practice you can try.">>
ClientErrorText ==
    <<"Hmm, something went wrong while talking to my brain in the cloud. Can you try again in a moment? (thought bubble)">>
K_message == <<"message">>
K_content == <<"content">>

initialAssistantMessage ==
    [id |-> 1, role |-> "assistant", content |-> GreetingText, withActivityCard |-> TRUE]

quickMoods ==
    {<<"I'm feeling stressed and overwhelmed.">>,
     <<"I'm tired and low on energy.">>,
     <<"I can't focus on my work right now.">>,
     <<"I'm okay, just want a gentle check-in.">>}

\* Date.now()
DateNow == ClockBase + now

\* faulty variant: the handlers keep the history of the first render
Snapshot_FirstHistory(m, i, l) ==
    [messages |-> <<initialAssistantMessage>>, input |-> i, isLoading |-> l]

\* what the handlers created by a render close over
Snapshot(m, i, l) == [messages |-> m, input |-> i, isLoading |-> l]

\* history.map(m => ({ role: m.role, content: m.content }))
PayloadMessages(history) ==
    [i \in 1..Len(history) |-> [role |-> history[i].role, content |-> history[i].content]]

\* JSON.stringify({ messages: payloadMessages }) as the pipeline's req.json() reads it
RequestBody(payload) == [valid |-> TRUE, hasMessages |-> TRUE, messages |-> payload]

\* faulty variant: the empty-text test left out of the guard
SubmitRejected_LoadingOnly(trimmed, loading) == loading

\* faulty variant: the loading flag left out of the guard
SubmitRejected_EmptyOnly(trimmed, loading) == trimmed = << >>

\* if (!trimmed || isLoading) return;
SubmitRejected(trimmed, loading) == trimmed = << >> \/ loading

UserMsg(trimmed) ==
    [id |-> DateNow, role |-> "user", content |-> trimmed, withActivityCard |-> FALSE]
AssistantMsg(text) ==
    [id |-> DateNow + 1, role |-> "assistant", content |-> text, withActivityCard |-> TRUE]
ErrorMsg ==
    [id |-> DateNow + 2, role |-> "assistant", content |-> ClientErrorText,
     withActivityCard |-> FALSE]

NewCall(payload) ==
    [pc |-> "fetching", req |-> payload, net |-> "sent", res |-> NoResponse]

\* faulty variant: the input field is cleared before the guard is evaluated
Rejected_InputCleared(trimmed) ==
    /\ lastSubmit' = IF trimmed = << >> THEN "empty" ELSE "loading"
    /\ input' = << >>
    /\ rendered' = [rendered EXCEPT !.input = << >>]
    /\ UNCHANGED <<srvVars, stubVars, messages, isLoading, calls, serving, now, page>>

\* the early return of a rejected submit
Rejected(trimmed) ==
    /\ lastSubmit' = IF trimmed = << >> THEN "empty" ELSE "loading"
    /\ UNCHANGED <<srvVars, stubVars, messages, input, isLoading, rendered, calls,
                   serving, now, page>>

\* sendMessage(text), up to its first await.  A rejected submit returns at
\* once.  An accepted one appends the user turn, clears the input, sets the
\* loading flag and starts the fetch; React commits the updates of a click or
\* submit handler before the next event is handled, so the next handlers close
\* over the new state.
sendMessage(text) ==
    LET trimmed == Trim(text)
        userMsg == UserMsg(trimmed)
        history == Append(rendered.messages, userMsg)
    IN  IF SubmitRejected(trimmed, rendered.isLoading)
        THEN Rejected(trimmed)
        ELSE /\ Len(calls) < MaxSubmits
             /\ messages' = Append(messages, userMsg)
             /\ input' = << >>
             /\ isLoading' = TRUE
             /\ rendered' = Snapshot(messages', input', isLoading')
             /\ calls' = Append(calls, NewCall(PayloadMessages(history)))
             /\ lastSubmit' = "accepted"
             /\ UNCHANGED <<srvVars, stubVars, serving, now, page>>

\* page 1: <form onSubmit={handleSend}>
handleSend ==
    /\ page = 1
    /\ sendMessage(rendered.input)

\* page 1: quick-mood chip onClick
handleQuickMood(text) ==
    /\ page = 1
    /\ sendMessage(text)

\* page 2: handleSend, up to its first await
handleSend2 ==
    /\ page = 2
    /\ LET trimmed == Trim(rendered.input)
           userMsg == UserMsg(trimmed)
       IN  IF SubmitRejected(trimmed, rendered.isLoading)
           THEN Rejected(trimmed)
           ELSE /\ Len(calls) < MaxSubmits
                /\ messages' = Append(messages, userMsg)
                /\ input' = << >>
                /\ isLoading' = TRUE
                /\ rendered' = Snapshot(messages', input', isLoading')
                /\ calls' = Append(calls,
                       NewCall(PayloadMessages(Append(rendered.messages, userMsg))))
                /\ lastSubmit' = "accepted"
                /\ UNCHANGED <<srvVars, stubVars, serving, now, page>>

\* onChange={e => setInput(e.target.value)}
onChange(text) ==
    /\ input' = text
    /\ rendered' = [rendered EXCEPT !.input = text]
    /\ UNCHANGED <<srvVars, stubVars, messages, isLoading, calls, serving, now, page, lastSubmit>>

\* React commits the state updates made after an await
Render ==
    /\ rendered # Snapshot(messages, input, isLoading)
    /\ rendered' = Snapshot(messages, input, isLoading)
    /\ UNCHANGED <<srvVars, stubVars, messages, input, isLoading, calls, serving, now, page,
                   lastSubmit>>

\* the clock advances
Tick ==
    /\ now < MaxTick
    /\ now' = now + 1
    /\ UNCHANGED <<srvVars, stubVars, messages, input, isLoading, rendered, calls, serving, page,
                   lastSubmit>>

\* res.ok
ResOk(r) == r.status >= 200 /\ r.status <= 299

\* obj?.key is undefined or null
Nullish(data, k) == ~HasKey(data, k) \/ Get(data, k) = JNull
\* a non-string value passes through as it is; none is among the inputs
TextOf(v) == IF v.t = "str" THEN v.s ELSE <<"(not a string)">>

\* data?.message ?? data?.content ?? "Here's a small practice you can try."
AssistantText(data) ==
    IF ~Nullish(data, K_message) THEN TextOf(Get(data, K_message))
    ELSE IF ~Nullish(data, K_content) THEN TextOf(Get(data, K_content))
    ELSE PlaceholderText

\* faulty variant: the catch block appends nothing
CatchAppend_Nothing(msgs) == msgs

\* faulty variant: the catch block sets the history to the error turn alone
CatchAppend_Replaced(msgs) == <<ErrorMsg>>

\* catch (err) { ...; setMessages(prev => [...prev, errorMsg]) }
CatchAppend(msgs) == Append(msgs, ErrorMsg)

\* faulty variant: no finally block, the flag stays as it is
FinallyLoading_Skipped == isLoading

\* finally { setIsLoading(false) }
FinallyLoading == FALSE

\* call i leaves sendMessage
Done(c) == [c EXCEPT !.pc = "done", !.net = "none", !.res = NoResponse]

\* the catch and finally blocks of call i
Failed(i) ==
    /\ messages' = CatchAppend(messages)
    /\ isLoading' = FinallyLoading
    /\ calls' = [calls EXCEPT ![i] = Done(@)]

\* sendMessage resumes after `await fetch(...)`: a rejected fetch and a
\* response that is not ok both end in the catch; otherwise res.json() is
\* awaited
FetchSettled(i) ==
    IF calls[i].net = "failed" \/ ~ResOk(calls[i].res)
    THEN Failed(i)
    ELSE /\ calls' = [calls EXCEPT ![i] = [@ EXCEPT !.pc = "reading", !.net = "none"]]
         /\ UNCHANGED <<messages, isLoading>>

\* sendMessage resumes after `await res.json()`: a body that does not parse
\* ends in the catch, otherwise the assistant turn is appended; then finally
JsonSettled(i) ==
    LET data == JSONParse(calls[i].res.body) IN
    IF ~data.ok
    THEN Failed(i)
    ELSE /\ messages' = Append(messages, AssistantMsg(AssistantText(data.val)))
         /\ isLoading' = FinallyLoading
         /\ calls' = [calls EXCEPT ![i] = Done(@)]

(***************************************************************************)
(* Inputs of the pipeline: request bodies, store answers, completions.     *)
(***************************************************************************)
UserContents == {<< >>, <<"a">>, <<"b">>}
HistoryMessages ==
    {[role |-> "user", content |-> c] : c \in UserContents}
    \cup {[role |-> "assistant", content |-> <<"c">>],
          [role |-> "system", content |-> <<"d">>]}
Histories == UNION {[1..n -> HistoryMessages] : n \in 0..MaxHist}

InvalidBody == [valid |-> FALSE]
BodyOf(h) == [valid |-> TRUE, hasMessages |-> TRUE, messages |-> h]
MissingMessagesBody == [valid |-> TRUE, hasMessages |-> FALSE, messages |-> << >>]
Bodies == {InvalidBody, MissingMessagesBody} \cup {BodyOf(h) : h \in Histories}

StoreRecords ==
    {[values |-> <<[s |-> <<"x">>]>>],
     [values |-> <<[s |-> <<"y">>], [n |-> "7"], [s |-> <<"z">>]>>],
     [values |-> <<[n |-> "7"]>>]}
SearchResults ==
    {[hasRecords |-> FALSE, records |-> << >>]}
    \cup {[hasRecords |-> TRUE, records |-> r] :
            r \in UNION {[1..n -> StoreRecords] : n \in 0..MaxRecords}}

T_hi == [s |-> <<"hi">>]
T_reply == [s |-> K_reply]
T_mini == [s |-> K_miniPractice]
GenTexts ==
    {<< >>,
     <<P("{"), P("}")>>,
     <<P("{"), T_reply, P(":"), T_hi, P(","), T_mini, P(":"), [lit |-> "null"], P("}")>>,
     <<P("{"), T_reply, P(":"), T_hi, P(","), T_mini, P(":"),
       P("{"), [s |-> <<"title">>], P(":"), [s |-> <<"t">>], P("}"), P("}")>>,
     <<P("{"), T_mini, P(":"), [lit |-> "null"], P("}")>>,
     <<P("{"), T_reply, P(":"), [n |-> "7"], P("}")>>,
     <<P("["), [n |-> "1"], P("]")>>,
     <<[n |-> "42"]>>,
     <<[lit |-> "null"]>>,
     <<[w |-> "Sure!"], P("{"), T_reply, P(":"), T_hi, P("}")>>,
     <<P("{"), T_reply, P(":"), T_hi>>}
Completions ==
    {[choices |-> << >>],
     [choices |-> <<[content |-> [isNull |-> TRUE, text |-> << >>]]>>]}
    \cup {[choices |-> <<[content |-> [isNull |-> FALSE, text |-> g]]>>] : g \in GenTexts}

(***************************************************************************)
(* The pipeline on its own, called with any request body.                  *)
(***************************************************************************)
ClientInit ==
    /\ messages = <<initialAssistantMessage>>
    /\ input = << >>
    /\ isLoading = FALSE
    /\ rendered = Snapshot(<<initialAssistantMessage>>, << >>, FALSE)
    /\ calls = << >>
    /\ serving = 0
    /\ now = 0
    /\ page \in {1, 2}
    /\ lastSubmit = "none"

PipelineInit ==
    /\ pc = "idle"
    /\ reqBody = InvalidBody
    /\ srvMessages = << >>
    /\ search = NotCalled
    /\ completion = NotCalled
    /\ searchCalls = << >>
    /\ genCalls = << >>
    /\ response = NoResponse

\* no stand-ins plugged in
NoStub == [store |-> "none", gen |-> "none"]
StubsUnused ==
    /\ stub = NoStub
    /\ log = << >>

InitPipeline == PipelineInit /\ ClientInit /\ StubsUnused /\ page = 1

CallPOST == \E b \in Bodies : POST(b) /\ UNCHANGED <<clientVars, stubVars>>
StoreAnswers == \E s \in SearchResults : SearchResolves(s) /\ UNCHANGED <<clientVars, stubVars>>
StoreFails == SearchRejects /\ UNCHANGED <<clientVars, stubVars>>
GenerationAnswers == \E c \in Completions : CreateResolves(c) /\ UNCHANGED <<clientVars, stubVars>>
GenerationFails == CreateRejects /\ UNCHANGED <<clientVars, stubVars>>

NextPipeline ==
    \/ CallPOST
    \/ StoreAnswers
    \/ StoreFails
    \/ GenerationAnswers
    \/ GenerationFails

SpecPipeline == InitPipeline /\ [][NextPipeline]_vars

(***************************************************************************)
(* The page and the pipeline together: the pipeline is called by the       *)
(* page's fetch, and the fetch settles with the pipeline's response, with  *)
(* a response from elsewhere on the path, or with a network failure.       *)
(***************************************************************************)
InputTexts == {<<" ">>, <<" ", "a", " ">>}
\* the quick-mood chips that get clicked
ClickedMoods == {<<"I'm tired and low on energy.">>}

ClientSearchResults ==
    {[hasRecords |-> FALSE, records |-> << >>],
     [hasRecords |-> TRUE, records |-> <<[values |-> <<[s |-> <<"x">>]>>]>>]}
ClientGenTexts ==
    {<< >>,
     <<P("{"), T_reply, P(":"), T_hi, P(","), T_mini, P(":"), [lit |-> "null"], P("}")>>,
     <<P("{"), [s |-> K_message], P(":"), [s |-> <<"m">>], P("}")>>,
     <<[w |-> "Sure!"], P("{"), T_reply, P(":"), T_hi, P("}")>>}
ClientCompletions ==
    {[choices |-> <<[content |-> [isNull |-> FALSE, text |-> g]]>>] : g \in ClientGenTexts}

\* responses that do not come from the handler: a gateway's error page, a
\* page served with status 200, a 400 with an error object
OtherResponses ==
    {[status |-> 502, body |-> <<[w |-> "<html>"]>>],
     [status |-> 200, body |-> <<[w |-> "<html>"]>>],
     [status |-> 400, body |-> JSONStringify(ErrorBody)]}

Init == PipelineInit /\ ClientInit /\ StubsUnused

\* the handler's invocation is over: its locals are gone
PipelineReset ==
    /\ pc' = "idle"
    /\ reqBody' = InvalidBody
    /\ srvMessages' = << >>
    /\ search' = NotCalled
    /\ completion' = NotCalled
    /\ searchCalls' = << >>
    /\ genCalls' = << >>
    /\ response' = NoResponse

SubmitForm == handleSend
ClickQuickMood == \E t \in ClickedMoods : handleQuickMood(t)
SubmitForm2 == handleSend2
TypeInput == \E t \in InputTexts : onChange(t)

\* the request of a pending fetch reaches the handler
ServerReceives ==
    \E i \in 1..Len(calls) :
        /\ calls[i].net = "sent"
        /\ serving = 0
        /\ POST(RequestBody(calls[i].req))
        /\ serving' = i
        /\ calls' = [calls EXCEPT ![i].net = "atServer"]
        /\ UNCHANGED <<stubVars, messages, input, isLoading, rendered, now, page, lastSubmit>>

ClientStoreAnswers ==
    \E s \in ClientSearchResults : SearchResolves(s) /\ UNCHANGED <<clientVars, stubVars>>
ClientStoreFails == SearchRejects /\ UNCHANGED <<clientVars, stubVars>>
ClientGenerationAnswers ==
    \E c \in ClientCompletions : CreateResolves(c) /\ UNCHANGED <<clientVars, stubVars>>
ClientGenerationFails == CreateRejects /\ UNCHANGED <<clientVars, stubVars>>

\* the handler's response reaches the page: fetch resolves with it
ResponseArrives ==
    /\ serving # 0
    /\ pc = "responded"
    /\ calls' = [calls EXCEPT ![serving] = [@ EXCEPT !.net = "answered", !.res = response]]
    /\ serving' = 0
    /\ PipelineReset
    /\ UNCHANGED <<stubVars, messages, input, isLoading, rendered, now, page, lastSubmit>>

\* the handler's response is lost on its way back: fetch rejects
ResponseLost ==
    /\ serving # 0
    /\ pc = "responded"
    /\ calls' = [calls EXCEPT ![serving].net = "failed"]
    /\ serving' = 0
    /\ PipelineReset
    /\ UNCHANGED <<stubVars, messages, input, isLoading, rendered, now, page, lastSubmit>>

\* something else on the path answers the request: fetch resolves with that
AnsweredElsewhere ==
    \E i \in 1..Len(calls) : \E r \in OtherResponses :
        /\ calls[i].net = "sent"
        /\ calls' = [calls EXCEPT ![i] = [@ EXCEPT !.net = "answered", !.res = r]]
        /\ UNCHANGED <<srvVars, stubVars, messages, input, isLoading, rendered, serving, now,
                       page, lastSubmit>>

\* the request is lost before it reaches the handler: fetch rejects
RequestLost ==
    \E i \in 1..Len(calls) :
        /\ calls[i].net = "sent"
        /\ calls' = [calls EXCEPT ![i].net = "failed"]
        /\ UNCHANGED <<srvVars, stubVars, messages, input, isLoading, rendered, serving, now,
                       page, lastSubmit>>

FetchSettles ==
    \E i \in 1..Len(calls) :
        /\ calls[i].pc = "fetching"
        /\ calls[i].net \in {"answered", "failed"}
        /\ FetchSettled(i)
        /\ UNCHANGED <<srvVars, stubVars, input, rendered, serving, now, page, lastSubmit>>

JsonSettles ==
    \E i \in 1..Len(calls) :
        /\ calls[i].pc = "reading"
        /\ JsonSettled(i)
        /\ UNCHANGED <<srvVars, stubVars, input, rendered, serving, now, page, lastSubmit>>

Settle ==
    \/ ServerReceives
    \/ ClientStoreAnswers
    \/ ClientStoreFails
    \/ ClientGenerationAnswers
    \/ ClientGenerationFails
    \/ ResponseArrives
    \/ ResponseLost
    \/ AnsweredElsewhere
    \/ RequestLost
    \/ FetchSettles
    \/ JsonSettles

Next ==
    \/ SubmitForm
    \/ ClickQuickMood
    \/ SubmitForm2
    \/ TypeInput
    \/ Render
    \/ Tick
    \/ Settle

Spec == Init /\ [][Next]_vars

(***************************************************************************)
(* The pipeline with deterministic stand-ins for the store and for the     *)
(* generation service: what each returns is a function of the request it   *)
(* is given.  Requests are handled one after the other, in any order.      *)
(***************************************************************************)
ReplyJson(text) ==
    <<P("{"), T_reply, P(":"), [s |-> text], P(","), T_mini, P(":"), [lit |-> "null"], P("}")>>
CompletionOf(text) == [choices |-> <<[content |-> [isNull |-> FALSE, text |-> text]]>>]

\* namespace.searchRecords, stubbed: what it is asked decides what it returns
StubSearch(kind, request) ==
    IF kind = "empty" THEN Returned([hasRecords |-> FALSE, records |-> << >>])
    ELSE IF kind = "failsOnB" /\ request.text = <<"b">> THEN Threw
    ELSE Returned([hasRecords |-> TRUE,
                   records |-> <<[values |-> <<[s |-> request.text]>>]>>])

\* openai.chat.completions.create, stubbed likewise
StubCreate(kind, request) ==
    IF kind = "down" THEN Threw
    ELSE IF kind = "context"
         THEN Returned(CompletionOf(ReplyJson(request.messages[2].content)))
    ELSE Returned(CompletionOf(ReplyJson(
             IF Len(request.messages) > 4 THEN <<"long">> ELSE <<"short">>)))

Stubs == [store : {"empty", "echo", "failsOnB"}, gen : {"context", "count", "down"}]

StubBodies ==
    {InvalidBody,
     BodyOf(<<[role |-> "assistant", content |-> <<"c">>]>>),
     BodyOf(<<[role |-> "user", content |-> <<"a">>]>>),
     BodyOf(<<[role |-> "user", content |-> <<"b">>]>>),
     BodyOf(<<[role |-> "user", content |-> <<"a">>],
              [role |-> "assistant", content |-> <<"c">>]>>),
     BodyOf(<<[role |-> "user", content |-> <<"a">>],
              [role |-> "user", content |-> <<"b">>]>>)}

InitStubbed ==
    /\ PipelineInit
    /\ ClientInit
    /\ page = 1
    /\ stub \in Stubs
    /\ log = << >>

\* the request handled in this step and its response, once it is answered
Logged ==
    /\ log' = IF pc' = "responded" THEN Append(log, <<reqBody', response'>>) ELSE log
    /\ UNCHANGED <<clientVars, stub>>

StubbedPOST ==
    \E b \in StubBodies :
        /\ Len(log) < MaxRequests
        /\ POST(b)
        /\ Logged

StubbedSearch ==
    /\ pc = "searching"
    /\ LET answer == StubSearch(stub.store, searchCalls[1])
       IN  IF answer = Threw THEN SearchRejects ELSE SearchResolves(answer.value)
    /\ Logged

StubbedCreate ==
    /\ pc = "generating"
    /\ LET answer == StubCreate(stub.gen, genCalls[1])
       IN  IF answer = Threw THEN CreateRejects ELSE CreateResolves(answer.value)
    /\ Logged

NextStubbed ==
    \/ StubbedPOST
    \/ StubbedSearch
    \/ StubbedCreate

SpecStubbed == InitStubbed /\ [][NextStubbed]_vars

(***************************************************************************)
(* Claims about the reply pipeline.                                        *)
(***************************************************************************)
Handling == pc # "idle" /\ reqBody.valid
UserIndexes(msgs) == {i \in 1..Len(msgs) : msgs[i].role = "user"}
LastUserIndex(msgs) ==
    CHOOSE i \in UserIndexes(msgs) : \A j \in UserIndexes(msgs) : j <= i
BodyValue == JSONParse(response.body)
IsObjectWith(val, keys) ==
    /\ val.t = "obj"
    /\ {val.kv[i].k : i \in 1..Len(val.kv)} = keys
    /\ Len(val.kv) = Cardinality(keys)
IsApology(val, text) ==
    /\ IsObjectWith(val, {K_reply, K_miniPractice})
    /\ Get(val, K_reply) = JStr(text)
    /\ Get(val, K_miniPractice) = JNull

\* C1: a history with no user-role message (an empty or a missing messages
\* list included) is answered 400 with an {error} body, and neither the store
\* search nor the generation service is called for that request.
C1_NoUserMessageIs400 ==
    (Handling /\ UserIndexes(srvMessages) = {}) =>
        /\ pc = "responded"
        /\ response.status = 400
        /\ BodyValue.ok
        /\ IsObjectWith(BodyValue.val, {K_error})
        /\ Get(BodyValue.val, K_error).t = "str"
        /\ searchCalls = << >>
        /\ genCalls = << >>
        /\ search = NotCalled
        /\ completion = NotCalled

C1_Witness ==
    /\ Handling
    /\ reqBody.hasMessages
    /\ Len(srvMessages) >= 2
    /\ UserIndexes(srvMessages) = {}
    /\ response.status = 400

\* C2 as claimed: any history with a user-role message, whatever its content,
\* is not rejected, and the store is searched with the content of the last
\* user-role message.
C2_AnyUserMessageAccepted ==
    (Handling /\ UserIndexes(srvMessages) # {}) =>
        /\ response.status # 400
        /\ searchCalls =
             <<[topK |-> 5, text |-> srvMessages[LastUserIndex(srvMessages)].content]>>

\* C2 as amended: a history whose last user-role message has non-empty content
\* is not rejected and the store is searched, once, with that content (not the
\* first user message, not an assistant or system message); a history whose
\* last user-role message is empty is answered 400 without a search.
C2_LastNonEmptyUserMessageIsQuery ==
    (Handling /\ UserIndexes(srvMessages) # {}) =>
        LET last == srvMessages[LastUserIndex(srvMessages)].content IN
        IF last # << >>
        THEN /\ response.status # 400
             /\ searchCalls = <<[topK |-> 5, text |-> last]>>
        ELSE /\ response.status = 400
             /\ searchCalls = << >>

C2_Witness ==
    /\ pc = "searching"
    /\ Len(srvMessages) >= 2
    /\ srvMessages[1] = [role |-> "user", content |-> <<"a">>]
    /\ srvMessages[2] = [role |-> "user", content |-> <<"b">>]
    /\ searchCalls = <<[topK |-> 5, text |-> <<"b">>]>>

\* C3: when the store search or the generation call throws, the response has
\* status 500 and the fixed apology object as its body, and the handler has
\* returned (no exception escapes it).
C3_UpstreamThrowIs500 ==
    /\ pc # "crashed"
    /\ (search = Threw \/ completion = Threw) =>
          /\ pc = "responded"
          /\ response.status = 500
          /\ BodyValue.ok
          /\ IsApology(BodyValue.val, CatchFallbackReply)

C3_WitnessGeneration ==
    search.called = "ok" /\ completion = Threw /\ response.status = 500

ReturnedText ==
    completion.called = "ok" /\ completion.value.choices # << >>
    /\ ~completion.value.choices[1].content.isNull
\* C4: when the generation service returns text that is not valid JSON, the
\* response has status 200 and the fixed fallback object as its body.
C4_NonJsonIsFallback200 ==
    (ReturnedText /\ ~JSONParse(completion.value.choices[1].content.text).ok) =>
        /\ response.status = 200
        /\ BodyValue.ok
        /\ IsApology(BodyValue.val, ParseFallbackReply)

GivenContext == SubSeq(genCalls[1].messages[2].content,
                       Len(SnippetsHeader) + 1, Len(genCalls[1].messages[2].content))
RECURSIVE TextOfFields(_)
TextOfFields(fields) ==
    IF fields = << >> THEN [any |-> FALSE, text |-> << >>]
    ELSE LET rest == TextOfFields(Tail(fields)) IN
         IF "s" \notin DOMAIN Head(fields) THEN rest
         ELSE IF ~rest.any THEN [any |-> TRUE, text |-> Head(fields).s]
         ELSE [any |-> TRUE, text |-> Head(fields).s \o <<"\n">> \o rest.text]
RECURSIVE AllRecordTexts(_)
AllRecordTexts(recs) ==
    IF recs = << >> THEN << >>
    ELSE IF Len(recs) = 1 THEN TextOfFields(recs[1].values).text
    ELSE TextOfFields(recs[1].values).text \o RecordSeparator \o AllRecordTexts(Tail(recs))
RECURSIVE NonEmptyRecordTexts(_)
NonEmptyRecordTexts(recs) ==
    IF recs = << >> THEN << >>
    ELSE LET t == TextOfFields(Head(recs).values).text
             rest == NonEmptyRecordTexts(Tail(recs))
         IN  IF t = << >> THEN rest
             ELSE IF rest = << >> THEN t
             ELSE t \o RecordSeparator \o rest
StoreRecordsReturned ==
    IF search.value.hasRecords THEN search.value.records ELSE << >>

\* C5 as claimed: with zero records the context given to the generation
\* service is the fallback notice; otherwise it is the text of the returned
\* records, joined in the store's record order.
C5_ContextIsAllRecordTexts ==
    (search.called = "ok") =>
        /\ Len(genCalls) = 1
        /\ GivenContext =
             IF StoreRecordsReturned = << >> THEN NoSnippetNotice
             ELSE AllRecordTexts(StoreRecordsReturned)

\* C5 as amended: when the store returns zero records, or records none of
\* which holds non-empty text, the context is the fallback notice verbatim;
\* otherwise it is the non-empty record texts in the store's record order,
\* joined by the separator.
C5_ContextIsNonEmptyRecordTexts ==
    (search.called = "ok") =>
        /\ Len(genCalls) = 1
        /\ GivenContext =
             IF NonEmptyRecordTexts(StoreRecordsReturned) = << >> THEN NoSnippetNotice
             ELSE NonEmptyRecordTexts(StoreRecordsReturned)

C5_Witness ==
    /\ search.called = "ok"
    /\ Len(StoreRecordsReturned) = 2
    /\ GivenContext = <<"y", "\n", "z">> \o RecordSeparator \o <<"x">>

Shape200 ==
    /\ response.status = 200
    /\ BodyValue.ok
    /\ IsObjectWith(BodyValue.val, {K_reply, K_miniPractice})
    /\ Get(BodyValue.val, K_reply).t = "str"
    /\ Get(BodyValue.val, K_miniPractice).t \in {"obj", "null"}
Shape400 ==
    /\ response.status = 400
    /\ BodyValue.ok
    /\ IsObjectWith(BodyValue.val, {K_error})
    /\ Get(BodyValue.val, K_error).t = "str"
Shape500 ==
    /\ response.status = 500
    /\ BodyValue.ok
    /\ IsApology(BodyValue.val, CatchFallbackReply)
\* C6: every response is status 200 with a string reply and a miniPractice
\* that is an object or null, or status 400 with {error: string}, or status
\* 500 with the fallback object.
C6_ThreeResponseShapes ==
    (pc = "responded") => (Shape200 \/ Shape400 \/ Shape500)

(***************************************************************************)
(* Claims about the chat client.                                           *)
(***************************************************************************)
InFlight == {i \in 1..Len(calls) : calls[i].pc # "done"}

UserTurns(msgs) == Cardinality({k \in 1..Len(msgs) : msgs[k].role = "user"})
Last(seq) == seq[Len(seq)]

\* C7: the loading flag is set only while a request has not settled: once the
\* request of an accepted submit has settled (a reply, a status that is not
\* ok, a body that does not parse, a network failure) the flag is false again.
C7_LoadingClearedOnceSettled ==
    (InFlight = {}) => ~isLoading

C7_Witness ==
    /\ Len(calls) = 2
    /\ InFlight = {}
    /\ ~isLoading
    /\ messages[3].content = ClientErrorText
    /\ messages[5].content = PlaceholderText

\* C8: at most one request is in flight, and while one is, no step starts
\* another request or appends a user turn: a submit made then is ignored.
C8_OneRequestInFlight ==
    [][/\ Cardinality(InFlight') <= 1
       /\ (InFlight # {}) =>
             /\ Len(calls') = Len(calls)
             /\ UserTurns(messages') = UserTurns(messages)]_vars

C8_Witness ==
    /\ Len(calls) = 1
    /\ calls[1].pc = "fetching"
    /\ lastSubmit = "loading"
    /\ Len(messages) = 2

ReplyRead(i) ==
    /\ calls[i].pc = "reading"
    /\ calls'[i].pc = "done"
    /\ JSONParse(calls[i].res.body).ok
    /\ HasKey(JSONParse(calls[i].res.body).val, K_reply)
    /\ Get(JSONParse(calls[i].res.body).val, K_reply).t = "str"
\* C9: when a call reads a 2xx response whose body holds a string reply, the
\* assistant turn it appends has that reply as its content.
C9_ReplyTextIsShown ==
    [][\A i \in 1..Len(calls) :
          ReplyRead(i) =>
             /\ Len(messages') = Len(messages) + 1
             /\ Last(messages').role = "assistant"
             /\ Last(messages').content =
                    Get(JSONParse(calls[i].res.body).val, K_reply).s]_vars

FailureSeen(i) ==
    /\ calls'[i].pc # calls[i].pc
    /\ \/ calls[i].pc = "fetching" /\ calls[i].net = "failed"
       \/ /\ calls[i].pc = "fetching" /\ calls[i].net = "answered"
          /\ ~(calls[i].res.status \in 200..299)
       \/ calls[i].pc = "reading" /\ ~JSONParse(calls[i].res.body).ok
\* C10: when the request of a call fails (the fetch rejects, the response is
\* not ok, or its body does not parse), the call appends one assistant turn
\* with the client's fixed error text, and every earlier turn, the call's own
\* user turn included, stays as it was, in order.
C10_FailureAppendsErrorTurn ==
    [][\A i \in 1..Len(calls) :
          FailureSeen(i) =>
             /\ calls'[i].pc = "done"
             /\ Len(messages') = Len(messages) + 1
             /\ SubSeq(messages', 1, Len(messages)) = messages
             /\ Last(messages').role = "assistant"
             /\ Last(messages').content = ClientErrorText
             /\ PayloadMessages(messages) = calls[i].req]_vars

C10_Witness ==
    /\ Len(calls) = 2
    /\ InFlight = {}
    /\ messages[3].content = PlaceholderText
    /\ messages[5].content = ClientErrorText
    /\ messages[4].role = "user"


(***************************************************************************)
(* Claims about the history the client keeps.                              *)
(***************************************************************************)
Settled == {i \in 1..Len(calls) : calls[i].pc = "done"}
AssistantTurns(msgs) == Cardinality({k \in 1..Len(msgs) : msgs[k].role = "assistant"})

\* C11: every accepted submit has put exactly one user turn in the history,
\* and every settled request exactly one assistant turn: after k accepted
\* submits of which d have settled the history holds the greeting, k user
\* turns and d further assistant turns, so 1 + 2k messages whenever no request
\* is in flight.
C11_OneUserOneAssistantPerSubmit ==
    /\ UserTurns(messages) = Len(calls)
    /\ AssistantTurns(messages) = 1 + Cardinality(Settled)
    /\ Len(messages) = 1 + Len(calls) + Cardinality(Settled)
    /\ (InFlight = {}) => Len(messages) = 1 + 2 * Len(calls)

C11_Witness ==
    /\ Len(calls) = 2
    /\ InFlight = {}
    /\ Len(messages) = 5
    /\ messages[3].content = ClientErrorText
    /\ messages[5].content = ClientErrorText


IsPrefix(a, b) == Len(a) <= Len(b) /\ SubSeq(b, 1, Len(a)) = a

\* C12: the history is append-only: in every step the history before the step
\* is a prefix of the history after it, so no message is removed, reordered
\* or changed in any field.
C12_HistoryAppendOnly ==
    [][IsPrefix(messages, messages')]_vars

C12_Witness ==
    /\ Len(calls) = 2
    /\ InFlight = {}
    /\ Len(messages) = 5
    /\ messages[2].content = <<"a">>
    /\ messages[3].content = <<"m">>
    /\ messages[4].content = <<"I'm tired and low on energy.">>
    /\ messages[5].content = PlaceholderText


SubmitAccepted == Len(calls') = Len(calls) + 1
SubmittedTexts ==
    {Trim(input)} \cup (IF page = 1 THEN {Trim(t) : t \in quickMoods} ELSE {})

\* C13: the payload of an accepted submit is the history state as it is after
\* the optimistic append, role and content of every message in order: the
\* messages the state held before the submit, followed by the new user turn,
\* whose content is the submitted text, trimmed and not empty.
C13_PayloadIsUpdatedHistory ==
    [][SubmitAccepted =>
          /\ Last(calls').req = PayloadMessages(messages')
          /\ Len(messages') = Len(messages) + 1
          /\ SubSeq(Last(calls').req, 1, Len(messages)) = PayloadMessages(messages)
          /\ Last(Last(calls').req).role = "user"
          /\ Last(Last(calls').req).content \in SubmittedTexts
          /\ Last(Last(calls').req).content # << >>]_vars

C13_Witness ==
    /\ page = 2
    /\ Len(calls) = 2
    /\ calls[2].pc = "fetching"
    /\ calls[2].net = "sent"
    /\ Len(calls[2].req) = 4
    /\ calls[2].req = PayloadMessages(messages)
    /\ calls[2].req[3].content = ClientErrorText
    /\ calls[2].req[4].content = <<"a">>


(***************************************************************************)
(* Claims about the pipeline across requests.                              *)
(***************************************************************************)
\* C14: with deterministic stand-ins for the store and the generation
\* service, two requests with the same body get the same response (status and
\* body), whatever was handled before or between them.
C14_SameHistorySameResponse ==
    \A i, j \in 1..Len(log) :
        (log[i][1] = log[j][1]) => (log[i][2] = log[j][2])

C14_Witness ==
    /\ Len(log) = 3
    /\ log[1][1] = log[3][1]
    /\ log[2][1] # log[1][1]
    /\ log[1][2].status = 200
    /\ log[2][2].status = 500
    /\ log[3][2] = log[1][2]
    /\ stub.store = "failsOnB"


GenerationTurns == genCalls[1].messages
PostedHistory == reqBody.messages
RetrievedContext ==
    IF NonEmptyRecordTexts(StoreRecordsReturned) = << >> THEN NoSnippetNotice
    ELSE NonEmptyRecordTexts(StoreRecordsReturned)

\* C15: the generation request for a history of n messages holds n + 3
\* turns: the persona system block, a system block that is the snippets
\* header followed by the retrieved context, the n messages of the history in
\* their order with role and content as posted, and the schema system block.
C15_GenerationRequestTurns ==
    (genCalls # << >>) =>
        /\ Len(GenerationTurns) = Len(PostedHistory) + 3
        /\ GenerationTurns[1] = [role |-> "system", content |-> KOA_SYSTEM_PROMPT]
        /\ GenerationTurns[2].role = "system"
        /\ GenerationTurns[2].content = SnippetsHeader \o RetrievedContext
        /\ \A i \in 1..Len(PostedHistory) :
              /\ GenerationTurns[2 + i].role = PostedHistory[i].role
              /\ GenerationTurns[2 + i].content = PostedHistory[i].content
        /\ GenerationTurns[Len(PostedHistory) + 3] =
               [role |-> "system", content |-> SchemaPrompt]

C15_Witness ==
    /\ pc = "generating"
    /\ genCalls # << >>
    /\ Len(PostedHistory) = 2
    /\ PostedHistory[1].role = "user"
    /\ PostedHistory[2].role = "assistant"
    /\ Len(GenerationTurns) = 5
    /\ GenerationTurns[4].role = "assistant"
    /\ RetrievedContext # NoSnippetNotice


Answered == response # NoResponse

\* C16: one request makes at most one search call and at most one
\* generation call, the generation call only once the search has returned;
\* after a search that threw there is no generation call.  The handler
\* answers once: no response exists while it awaits a service, one exists
\* when it has ended, and the response only changes in the step that ends the
\* handling of a request or starts the next.
C16_SingleAttemptSingleResponse ==
    [][/\ Len(searchCalls') <= 1
       /\ Len(genCalls') <= 1
       /\ (genCalls' # << >>) => (search'.called = "ok" /\ Len(searchCalls') = 1)
       /\ (search' = Threw) => (genCalls' = << >>)
       /\ (pc' \in {"searching", "generating"}) => ~Answered'
       /\ (pc' = "responded") => Answered'
       /\ (response' # response) =>
              \/ pc \in {"searching", "generating"} /\ pc' = "responded"
              \/ pc \in {"idle", "responded"} /\ reqBody' \in Bodies]_vars

C16_Witness ==
    /\ pc = "responded"
    /\ search = Threw
    /\ completion = NotCalled
    /\ Len(searchCalls) = 1
    /\ genCalls = << >>
    /\ response.status = 500


(***************************************************************************)
(* Claims about submits, roles and ids.                                    *)
(***************************************************************************)
SubmitWasRejected == lastSubmit' # lastSubmit /\ lastSubmit' \in {"empty", "loading"}

\* C17: a rejected submit (its text is empty once trimmed, or the handler's
\* loading flag is set) leaves the history, the input field and the loading
\* flag as they were and sends no request; the pipeline is not called.
C17_RejectedSubmitChangesNothing ==
    [][SubmitWasRejected =>
          /\ messages' = messages
          /\ input' = input
          /\ isLoading' = isLoading
          /\ calls' = calls
          /\ UNCHANGED srvVars
          /\ (lastSubmit' = "loading") => rendered.isLoading
          /\ (lastSubmit' = "empty") => (Trim(input) = << >>)]_vars

C17_Witness ==
    /\ lastSubmit = "loading"
    /\ input = <<" ", "a", " ">>
    /\ Len(calls) = 1
    /\ calls[1].net = "atServer"
    /\ isLoading


RoleAt(k) == IF k % 2 = 1 THEN "assistant" ELSE "user"

\* C18: the history starts with the greeting and its roles alternate,
\* assistant first; the payload of every request ends with a user message
\* whose content is not empty once trimmed; and the pipeline, handling a
\* request of the page, does not answer it with status 400.
C18_RolesAlternateNo400 ==
    /\ messages[1] = initialAssistantMessage
    /\ \A k \in 1..Len(messages) : messages[k].role = RoleAt(k)
    /\ \A i \in 1..Len(calls) :
          /\ Last(calls[i].req).role = "user"
          /\ Trim(Last(calls[i].req).content) # << >>
          /\ \A k \in 1..Len(calls[i].req) : calls[i].req[k].role = RoleAt(k)
    /\ (serving # 0) => (response.status # 400)

C18_Witness ==
    /\ serving = 2
    /\ pc = "responded"
    /\ response.status = 200
    /\ Len(calls[2].req) = 4
    /\ Len(messages) = 4
    /\ messages[3].content = PlaceholderText


\* C19: the ids of the messages in the history are pairwise distinct.
C19_IdsPairwiseDistinct ==
    \A i, j \in 1..Len(messages) :
        (i # j) => (messages[i].id # messages[j].id)

=============================================================================
